---- MODULE Spec2Model ----
(***************************************************************************)
(* Model of langevin_cached_model.py: the Ornstein_Uhlenbeck log-density   *)
(* and the BayesianModel engine (cache_model / run / _inference) with its  *)
(* four variants OU_DA, OU_BA, LangevinPlusNoiseIG and LangevinIG2.        *)
(*                                                                         *)
(* The numeric/graph layer (theano shared containers, pymc3 distributions, *)
(* pm.sample) is outside the file.  It is modelled by what the engine can  *)
(* observe of it: a container has a type fixed at creation (its number of  *)
(* dimensions) and a value; building a graph either raises or yields a     *)
(* graph that references the containers it was given; the sampler either   *)
(* raises or returns a trace.                                              *)
(***************************************************************************)
EXTENDS Integers, Sequences, FiniteSets, TLC

VARIABLES
    variant,          \* the class of the engine instance
    cached_model,     \* self.cached_model
    cached_start,     \* self.cached_start
    cached_sampler,   \* self.cached_sampler
    shared_vars,      \* self.shared_vars: name -> container
    nextGen,          \* allocation counter: identity of the next objects created
    calls,            \* number of public calls made so far (bounded)
    createCalls,      \* history: number of create_model invocations
    samplerCalls,     \* history: number of pm.sample invocations
    onlyGoodRuns,     \* history: every call so far was a run that returned a trace
    sampledWith,      \* history: the sampler invocations seen for each value of reinit
    last,             \* history: what the last public call did
    ou                \* the log-density evaluation: inputs and result

vars == <<variant, cached_model, cached_start, cached_sampler,
          shared_vars, nextGen, calls, createCalls, samplerCalls, onlyGoodRuns,
          sampledWith, last, ou>>

engineVars == <<variant, cached_model, cached_start, cached_sampler,
                shared_vars, nextGen, calls, createCalls, samplerCalls,
                onlyGoodRuns, sampledWith, last>>

(***************************************************************************)
(* Bounds                                                                  *)
(***************************************************************************)
MaxCalls == 3        \* public calls (cache_model / run) per engine instance
MaxLen == 3          \* longest path handed to Ornstein_Uhlenbeck.logp

(***************************************************************************)
(* Values                                                                  *)
(***************************************************************************)
\* Python's None for an object reference.
None == [gen |-> 0, built_from |-> {}]

\* Array data a caller passes: number of dimensions, length, content tag.
Scalar(v) == [ndim |-> 0, len |-> 1, val |-> v]
Vector(n, v) == [ndim |-> 1, len |-> n, val |-> v]

Shape(d) == <<d.ndim, d.len>>

Variants == {"BayesianModel", "OU_DA", "OU_BA", "LangevinPlusNoiseIG", "LangevinIG2"}

\* Keyword parameters of each create_model, in signature order.
Signature(v) ==
    CASE v = "BayesianModel" -> << >>
      [] v = "OU_DA" -> <<"x", "d_bound", "a_bound", "delta_t", "N">>
      [] v = "OU_BA" -> <<"x", "b_bound", "a_bound", "delta_t", "N">>
      [] v = "LangevinPlusNoiseIG" ->
            <<"x", "aD", "bD", "aA", "bA", "aN", "bN", "delta_t", "N">>
      [] v = "LangevinIG2" ->
            <<"x1", "x2", "aD", "bD", "aA1", "bA1", "aA2", "bA2", "delta_t", "N">>

Range(s) == {s[i] : i \in DOMAIN s}

Params(v) == Range(Signature(v))

\* The names bound to observed paths.
Observed == {"x", "x1", "x2"}

\* The engine defaults.
samples == 10000
target_accept == <<8, 10>>     \* 0.8, as a fraction

(***************************************************************************)
(* create_model                                                            *)
(***************************************************************************)
Stmt(line, op, reads) == [line |-> line, op |-> op, reads |-> reads]

\* The statements of each create_model body, in program order.
\*   "raise"   : raise NotImplementedError
\*   "prior"   : a prior distribution built from hyperparameters
\*   "neg"     : pm.math.exp(-delta_t * D / A), unary minus on the parameter
\*   "attr"    : pm.exp.math(...), an attribute the pymc3 module does not have
\*   "observed": a likelihood attached to the path passed as observed=
\*   "latent"  : a latent path of shape (N,)
Body(v) ==
    CASE v = "BayesianModel" -> << Stmt(53, "raise", {}) >>
      [] v = "OU_DA" ->
            << Stmt(86, "prior", {"d_bound"}), Stmt(87, "prior", {"a_bound"}),
               Stmt(89, "neg", {"delta_t"}), Stmt(91, "observed", {"x"}) >>
      [] v = "OU_BA" ->
            << Stmt(103, "prior", {"b_bound"}), Stmt(104, "prior", {"a_bound"}),
               Stmt(106, "observed", {"x"}) >>
      [] v = "LangevinPlusNoiseIG" ->
            << Stmt(117, "prior", {"aD", "bD"}), Stmt(118, "prior", {"aA", "bA"}),
               Stmt(119, "prior", {"aN", "bN"}), Stmt(121, "neg", {"delta_t"}),
               Stmt(123, "latent", {"N"}), Stmt(125, "observed", {"x"}) >>
      [] v = "LangevinIG2" ->
            << Stmt(137, "prior", {"aD", "bD"}), Stmt(138, "prior", {"aA1", "bA1"}),
               Stmt(139, "prior", {"aA2", "bA2"}), Stmt(141, "neg", {"delta_t"}),
               Stmt(142, "attr", {"delta_t"}),
               Stmt(144, "observed", {"x1"}), Stmt(145, "observed", {"x2"}) >>

\* The parameters a body reads at all.
Reads(v) == UNION {Body(v)[i].reads : i \in DOMAIN Body(v)}

\* Whether every parameter the statement reads is bound to a container; a
\* parameter the call left out is None, the signature default.
Bound(st, kw) == st.reads \subseteq DOMAIN kw

\* What one statement does.
\*   -None is a TypeError.
\*   An observed path is handed to Ornstein_Uhlenbeck.logp, where x[:-1] and
\*   x[1:] need a dimension to slice: IndexError on a scalar, and on
\*   observed=None, which makes the path a free scalar variable.
\*   shape=(None,) is no shape: TypeError.
\*   The calls explored always pass the hyperparameters of the priors.
ExecStmtNegUnchecked(st, kw) ==
    CASE st.op = "raise" -> "NotImplementedError"
      [] st.op = "attr" -> "AttributeError"
      [] st.op = "observed" ->
            IF Bound(st, kw) /\ \A n \in st.reads : kw[n].ndim >= 1
            THEN "ok" ELSE "IndexError"
      [] st.op = "latent" -> IF Bound(st, kw) THEN "ok" ELSE "TypeError"
      [] OTHER -> "ok"

ExecStmt(st, kw) ==
    CASE st.op = "raise" -> "NotImplementedError"
      [] st.op = "attr" -> "AttributeError"
      [] st.op = "neg" -> IF Bound(st, kw) THEN "ok" ELSE "TypeError"
      [] st.op = "observed" ->
            IF Bound(st, kw) /\ \A n \in st.reads : kw[n].ndim >= 1
            THEN "ok" ELSE "IndexError"
      [] st.op = "latent" -> IF Bound(st, kw) THEN "ok" ELSE "TypeError"
      [] OTHER -> "ok"

RECURSIVE ExecBody(_, _, _)
ExecBody(body, i, kw) ==
    IF i > Len(body) THEN "ok"
    ELSE LET r == ExecStmt(body[i], kw)
         IN IF r = "ok" THEN ExecBody(body, i + 1, kw) ELSE r

\* Binding **shared_vars to the signature: the base class takes **inputs, a
\* variant rejects a keyword it does not declare.
BindError(v, given) ==
    IF v # "BayesianModel" /\ ~(given \subseteq Params(v)) THEN "TypeError" ELSE "ok"

create_model_base_returns(v, kw, gen) ==
    LET b == BindError(v, DOMAIN kw)
        err == IF b # "ok" THEN b
               ELSE IF v = "BayesianModel" THEN "ok"
               ELSE ExecBody(Body(v), 1, kw)
    IN [err |-> err,
        model |-> [gen |-> gen,
                   built_from |-> {[name |-> n, gen |-> kw[n].gen] : n \in DOMAIN kw}]]

\* create_model(**kw): the error raised, or "ok" and the graph built from the
\* containers kw.
create_model(v, kw, gen) ==
    LET b == BindError(v, DOMAIN kw)
        err == IF b # "ok" THEN b ELSE ExecBody(Body(v), 1, kw)
    IN [err |-> err,
        model |-> [gen |-> gen,
                   built_from |-> {[name |-> n, gen |-> kw[n].gen] : n \in DOMAIN kw}]]

(***************************************************************************)
(* The engine                                                              *)
(***************************************************************************)
\* shared(np.asarray(data), name=name): the container's type (ndim) is fixed
\* here; shape0 is a history field, the shape of the value at creation.
shared(data, gen) ==
    [gen |-> gen, ndim |-> data.ndim, shape0 |-> Shape(data), value |-> data]

create_shared_vars(inputs, gen) ==
    [n \in DOMAIN inputs |-> shared(inputs[n], gen)]

\* The progress of one public call: the engine fields it has written so far
\* and what it has done.
NoTrace == [trace |-> 0]
NoArgs == [k \in {} |-> 0]

Begin ==
    [cached_model |-> cached_model, shared_vars |-> shared_vars,
     nextGen |-> nextGen, createCalls |-> createCalls,
     samplerCalls |-> samplerCalls,
     err |-> "ok", built |-> FALSE, sampled |-> FALSE,
     view |-> NoArgs, args |-> NoArgs, ctx |-> None, trace |-> NoTrace,
     returned |-> NoTrace]

\* cache_model(**inputs): shared_vars is assigned before create_model runs,
\* cached_model only when create_model returns.
cache_model(e, v, inputs) ==
    LET sv == create_shared_vars(inputs, e.nextGen)
        r == create_model(v, sv, e.nextGen)
    IN [e EXCEPT !.shared_vars = sv,
                 !.nextGen = @ + 1,
                 !.createCalls = @ + 1,
                 !.built = TRUE,
                 !.cached_model = IF r.err = "ok" THEN r.model ELSE @,
                 !.err = r.err]

AcceptsAnyShape(container, data) == TRUE

set_value_dropped(container, data) == container

\* TensorType.filter, reached from set_value: a value of another number of
\* dimensions is rejected; the length along a dimension is not part of the type.
Accepts(container, data) == data.ndim = container.ndim

set_value(container, data) == [container EXCEPT !.value = data]

\* for name, data in inputs.items(): self.shared_vars[name].set_value(data)
RECURSIVE SetValues(_, _, _, _)
SetValues(e, inputs, order, i) ==
    IF i > Len(order) THEN e
    ELSE LET name == order[i]
         IN IF name \notin DOMAIN e.shared_vars
                THEN [e EXCEPT !.err = "KeyError"]
            ELSE IF ~Accepts(e.shared_vars[name], inputs[name])
                THEN [e EXCEPT !.err = "TypeError"]
            ELSE SetValues(
                    [e EXCEPT !.shared_vars[name] = set_value(@, inputs[name])],
                    inputs, order, i + 1)

SampleArgsOmitsDraws(reinit) == [samples |-> 500, target_accept |-> target_accept]

\* The keyword arguments _inference hands to pm.sample.
SampleArgs(reinit) == [samples |-> samples, target_accept |-> target_accept]

\* pm.sample(...): res is what the sampler does, return a trace (a fresh
\* object each time, identified by the invocation's number) or raise.
sample(n, res) == IF res = "raise" THEN NoTrace ELSE [trace |-> n]

\* _inference(reinit): with self.cached_model: trace = pm.sample(...); return trace
inference(e, reinit, res) ==
    LET trace == sample(e.samplerCalls + 1, res)
    IN [e EXCEPT !.sampled = TRUE,
                 !.samplerCalls = @ + 1,
                 !.ctx = e.cached_model,
                 !.args = SampleArgs(reinit),
                 !.view = [n \in DOMAIN e.shared_vars |-> e.shared_vars[n].value],
                 !.err = IF res = "raise" THEN "SamplingError" ELSE "ok",
                 !.trace = trace,
                 !.returned = trace]

NeedsBuildAlways(cm) == TRUE

NeedsBuild(cm) == cm = None

\* run, up to the call of _inference: the build when nothing is cached, then
\* the overwrites.
rebind(e, v, inputs, order) ==
    LET e1 == IF NeedsBuild(e.cached_model) THEN cache_model(e, v, inputs) ELSE e
    IN IF e1.err # "ok" THEN e1 ELSE SetValues(e1, inputs, order, 1)

\* run(reinit, **inputs), from there: trace = self._inference(reinit=reinit)
run(e, reinit, res) == IF e.err # "ok" THEN e ELSE inference(e, reinit, res)

(***************************************************************************)
(* Ornstein_Uhlenbeck.logp                                                 *)
(***************************************************************************)
\* Rationals as <<numerator, denominator>>, not normalised.
RMul(p, q) == <<p[1] * q[1], p[2] * q[2]>>
RDiv(p, q) == <<p[1] * q[2], p[2] * q[1]>>
RSub(p, q) == <<p[1] * q[2] - q[1] * p[2], p[2] * q[2]>>
REq(p, q) == p[1] * q[2] = q[1] * p[2]
R(n) == <<n, 1>>

\* pm.Normal.dist(mu=mu, tau=tau).logp(value) for one element: the term is
\* kept symbolically as the triple that determines it.
NormalLogp(mu, tau, value) == [mu |-> mu, tau |-> tau, value |-> value]

x_im1(x) == SubSeq(x, 1, Len(x) - 1)      \* x[:-1]

x_i_shifted(x) == SubSeq(x, 1, Len(x) - 1)

x_i(x) == SubSeq(x, 2, Len(x))            \* x[1:]

\* logp(self, x): the stationary term and the summands of tt.sum(ou_like).
logp(A, B, x) ==
    LET tau == RDiv(RDiv(R(1), R(A)), RSub(R(1), RMul(B, B)))
        prev == x_im1(x)
        cur == x_i(x)
        ou_like == [k \in 1..Len(cur) |-> NormalLogp(RMul(R(prev[k]), B), tau, cur[k])]
    IN [first |-> NormalLogp(R(0), RDiv(R(1), R(A)), x[1]),
        sum |-> ou_like]

(***************************************************************************)
(* Inputs                                                                  *)
(***************************************************************************)
\* The names a caller of this variant passes when it passes everything.
CallOrder(v) == IF v = "BayesianModel" THEN <<"x", "delta_t">> ELSE Signature(v)

RECURSIVE Keep(_, _)
Keep(s, S) ==
    IF s = << >> THEN << >>
    ELSE IF Head(s) \in S THEN <<Head(s)>> \o Keep(Tail(s), S) ELSE Keep(Tail(s), S)

\* One call's data: the observed path(s) and the value of every other input.
DataSets ==
    { [path |-> Vector(2, 1), hyper |-> Scalar(1)],
      [path |-> Vector(2, 2), hyper |-> Scalar(2)],
      [path |-> Vector(3, 1), hyper |-> Scalar(1)],
      [path |-> Scalar(1), hyper |-> Scalar(2)] }

\* How a call deviates from passing exactly the variant's names: not at all,
\* by omitting one name, or by passing one undeclared name.
Deviations(v) ==
    {[omit |-> {}, extra |-> {}], [omit |-> {}, extra |-> {"bogus"}]}
    \cup {[omit |-> {n}, extra |-> {}] :
            n \in Range(CallOrder(v)) \cap {"x", "x1", "delta_t", "N"}}

Inputs(v, d, dev) ==
    [n \in (Range(CallOrder(v)) \ dev.omit) \cup dev.extra |->
        IF n \in Observed THEN d.path ELSE d.hyper]

\* The order in which the caller wrote them (inputs.items() keeps it).
Order(v, inputs) == Keep(CallOrder(v) \o <<"bogus">>, DOMAIN inputs)

Idle == [A |-> 0, B |-> <<0, 1>>, x |-> << >>, done |-> FALSE, result |-> NoArgs]

(***************************************************************************)
(* Specification of the engine                                             *)
(***************************************************************************)
\* __init__
Init ==
    /\ variant \in Variants
    /\ cached_model = None
    /\ cached_start = None
    /\ cached_sampler = None
    /\ shared_vars = NoArgs
    /\ nextGen = 1
    /\ calls = 0
    /\ createCalls = 0
    /\ samplerCalls = 0
    /\ sampledWith = [r \in BOOLEAN |-> {}]
    /\ onlyGoodRuns = TRUE
    /\ last = [op |-> "init"]
    /\ ou = Idle

\* What a finished call leaves behind.
Finish(op, e, reinit, inputs) ==
    /\ cached_model' = e.cached_model
    /\ shared_vars' = e.shared_vars
    /\ nextGen' = e.nextGen
    /\ createCalls' = e.createCalls
    /\ samplerCalls' = e.samplerCalls
    /\ calls' = calls + 1
    /\ onlyGoodRuns' = (onlyGoodRuns /\ op = "run" /\ e.err = "ok")
    /\ sampledWith' = IF e.sampled THEN [sampledWith EXCEPT ![reinit] = @ \cup {e.args}]
                      ELSE sampledWith
    /\ last' = [op |-> op, reinit |-> reinit, inputs |-> inputs,
                pre_model |-> cached_model, pre_names |-> DOMAIN shared_vars,
                pre_samplerCalls |-> samplerCalls,
                outcome |-> e.err, built |-> e.built, sampled |-> e.sampled,
                view |-> e.view, args |-> e.args, ctx |-> e.ctx,
                sampler_trace |-> e.trace,
                returned |-> e.returned]
    /\ UNCHANGED <<variant, cached_start, cached_sampler, ou>>

CacheModel ==
    /\ calls < MaxCalls
    /\ \E d \in DataSets, dev \in Deviations(variant) :
          LET inputs == Inputs(variant, d, dev)
          IN Finish("cache_model", cache_model(Begin, variant, inputs),
                    TRUE, inputs)

Run ==
    /\ calls < MaxCalls
    /\ \E d \in DataSets, dev \in Deviations(variant), reinit \in BOOLEAN :
          LET inputs == Inputs(variant, d, dev)
              e == rebind(Begin, variant, inputs, Order(variant, inputs))
          IN \E res \in (IF e.err = "ok" THEN {"trace", "raise"} ELSE {"unreached"}) :
                Finish("run", run(e, reinit, res), reinit, inputs)

Next == CacheModel \/ Run

Spec == Init /\ [][Next]_vars

(***************************************************************************)
(* Specification of the log-density evaluation                             *)
(***************************************************************************)
PathValues == {-1, 0, 1}

Paths == UNION {[1..n -> PathValues] : n \in 1..MaxLen}

InitOU ==
    /\ variant = "OU_BA"
    /\ sampledWith = [r \in BOOLEAN |-> {}]
    /\ onlyGoodRuns = TRUE
    /\ cached_model = None
    /\ cached_start = None
    /\ cached_sampler = None
    /\ shared_vars = NoArgs
    /\ nextGen = 1
    /\ calls = 0
    /\ createCalls = 0
    /\ samplerCalls = 0
    /\ last = [op |-> "init"]
    /\ \E A \in {1, 2}, B \in {<<1, 2>>, <<3, 4>>}, x \in Paths :
          ou = [A |-> A, B |-> B, x |-> x, done |-> FALSE, result |-> NoArgs]

EvalLogp ==
    /\ ~ou.done
    /\ ou.x # << >>
    /\ ou' = [ou EXCEPT !.done = TRUE, !.result = logp(ou.A, ou.B, ou.x)]
    /\ UNCHANGED engineVars

NextOU == EvalLogp

SpecOU == InitOU /\ [][NextOU]_vars

(***************************************************************************)
(* Properties                                                              *)
(***************************************************************************)
IsCall == last.op \in {"cache_model", "run"}
IsRun == last.op = "run"

\* The containers in shared_vars, by identity.
Containers == {[name |-> n, gen |-> shared_vars[n].gen] : n \in DOMAIN shared_vars}

\* The last call invoked create_model and it raised / returned.
BuildFailed == IsCall /\ last.built /\ cached_model = last.pre_model
BuildDone == IsCall /\ last.built /\ cached_model # last.pre_model

\* The names of the variant the last call left out.
Omitted == Range(CallOrder(variant)) \ DOMAIN last.inputs

\* C1: along any sequence of runs that all return a trace, create_model has
\* been invoked exactly once, the cached graph is the one the first run built,
\* the containers are the ones it was built from, and a later run neither
\* builds nor replaces the graph.
C1_BuiltOnce ==
    (onlyGoodRuns /\ calls >= 1) =>
        /\ createCalls = 1
        /\ cached_model # None
        /\ cached_model.gen = 1
        /\ Containers = cached_model.built_from
        /\ (calls >= 2 => ~last.built /\ last.pre_model = cached_model)

C1_Witness ==
    /\ onlyGoodRuns /\ calls >= 2
    /\ \A n \in DOMAIN last.inputs : Shape(last.inputs[n]) = shared_vars[n].shape0
    /\ \E n \in DOMAIN last.inputs : last.inputs[n].val = 2

\* C2: on the base engine a run fails with NotImplementedError, the sampler
\* has never been invoked, no trace is returned and cached_model is still None.
C2_BaseRunFails ==
    (variant = "BayesianModel") =>
        /\ samplerCalls = 0
        /\ cached_model = None
        /\ (IsRun => /\ last.outcome = "NotImplementedError"
                     /\ ~last.sampled
                     /\ last.returned = NoTrace)

C2_Witness == variant = "BayesianModel" /\ IsRun /\ calls = 2

\* A name the last run passed that was bound before it, with a value whose
\* number of dimensions / shape differs from the container's.
RankMismatch ==
    \E n \in DOMAIN last.inputs \cap last.pre_names :
        last.inputs[n].ndim # shared_vars[n].ndim
ShapeMismatch ==
    \E n \in DOMAIN last.inputs \cap last.pre_names :
        Shape(last.inputs[n]) # shared_vars[n].shape0

\* C3 (as claimed): once a graph is cached, a run with a value whose shape
\* differs from the first call's fails and no trace is produced.
C3_ShapeChangeFails ==
    (IsRun /\ last.pre_model # None /\ ShapeMismatch) =>
        /\ last.outcome # "ok"
        /\ last.returned = NoTrace
        /\ last.sampler_trace = NoTrace

\* C3 (amended): once a graph is cached, a run with a value whose number of
\* dimensions differs from the container's raises before the sampler is
\* invoked and returns no trace; when every passed name is bound and every
\* value has its container's number of dimensions, whatever its length, the
\* run reaches the sampler.
C3_RankChangeFails ==
    (IsRun /\ last.pre_model # None) =>
        /\ RankMismatch =>
              /\ last.outcome \in {"TypeError", "KeyError"}
              /\ ~last.sampled
              /\ last.returned = NoTrace
              /\ samplerCalls = last.pre_samplerCalls
        /\ (~RankMismatch /\ DOMAIN last.inputs \subseteq last.pre_names) =>
              last.sampled

C3_Witness ==
    /\ IsRun /\ last.pre_model # None /\ RankMismatch
    /\ last.outcome = "TypeError"

\* C4 (as claimed): a call on a concrete variant that builds while omitting
\* one of the variant's inputs fails: no graph is cached, nothing is sampled.
C4_OmissionFails ==
    (IsCall /\ variant # "BayesianModel" /\ last.built /\ Omitted # {}) =>
        /\ last.outcome # "ok"
        /\ cached_model = last.pre_model
        /\ ~last.sampled

\* C4 (amended): the engine raises no missing-input error; create_model gets
\* None for the omitted parameter.  If create_model raises, no new graph is
\* cached and nothing is sampled; it always raises (TypeError) when delta_t is
\* omitted in a variant that negates it; when the omitted parameter is one the
\* variant's create_model never reads, the omission changes nothing: with the
\* observed path an array of one dimension the graph is cached and a run
\* reaches the sampler.
C4_OmissionPassesNone ==
    (IsCall /\ variant # "BayesianModel" /\ last.built /\ Omitted # {}) =>
        /\ BuildFailed =>
              /\ last.outcome # "ok"
              /\ ~last.sampled
              /\ last.returned = NoTrace
              /\ samplerCalls = last.pre_samplerCalls
        /\ ("delta_t" \in Omitted /\ variant \in {"OU_DA", "LangevinPlusNoiseIG"}) =>
              BuildFailed /\ last.outcome = "TypeError"
        /\ ( /\ Omitted \cap Reads(variant) = {}
             /\ variant # "LangevinIG2"
             /\ \A n \in DOMAIN last.inputs \cap Observed : last.inputs[n].ndim >= 1 ) =>
              BuildDone /\ (IsRun => last.sampled)

C4_Witness ==
    /\ IsRun /\ variant = "OU_BA" /\ last.built /\ Omitted = {"delta_t"}
    /\ last.sampled /\ last.outcome = "ok"

\* C5: when a run reaches the sampler, every container named in the call holds
\* the value passed in that call at the moment of the invocation, on the run
\* that builds as on later ones; a run that does not build binds no new name:
\* passing an unbound name stops it before the sampler.
C5_OverwriteBeforeSampling ==
    IsRun =>
        /\ last.sampled =>
              \A n \in DOMAIN last.inputs :
                  n \in DOMAIN last.view /\ last.view[n] = last.inputs[n]
        /\ ~last.built =>
              /\ DOMAIN shared_vars = last.pre_names
              /\ (~(DOMAIN last.inputs \subseteq last.pre_names) => ~last.sampled)

C5_Witness ==
    /\ IsRun /\ last.sampled /\ ~last.built /\ calls >= 2
    /\ \E n \in DOMAIN last.inputs : last.inputs[n].val = 2

\* C6 (as claimed): the sampler invocation run makes depends on reinit: no
\* invocation made for reinit=False is one made for reinit=True.
C6_ReinitControls == sampledWith[TRUE] \cap sampledWith[FALSE] = {}

\* C7: a run that reaches _inference invokes the sampler exactly once, inside
\* the cached graph, with 10000 draws and target acceptance 0.8, and returns
\* the very trace the sampler returned; a run that returns has sampled.
C7_InferenceDelegates ==
    IsRun =>
        /\ last.sampled =>
              /\ samplerCalls = last.pre_samplerCalls + 1
              /\ last.ctx = cached_model /\ cached_model # None
              /\ last.args.samples = 10000
              /\ last.args.target_accept = <<8, 10>>
              /\ last.returned = last.sampler_trace
        /\ ~last.sampled => samplerCalls = last.pre_samplerCalls
        /\ last.outcome = "ok" => last.sampled /\ last.returned = [trace |-> samplerCalls]

C7_Witness == IsRun /\ last.sampled /\ last.outcome = "ok" /\ samplerCalls = 2

\* C8: logp of a path of length N is one stationary term for x[0] (mean 0,
\* variance A) and N-1 transition terms, the i-th evaluating x[i] against mean
\* B*x[i-1] with variance A*(1-B^2); for N = 1 it is the stationary term alone.
C8_LogpTerms ==
    ou.done =>
        LET N == Len(ou.x)
            r == ou.result
            var == RMul(R(ou.A), RSub(R(1), RMul(ou.B, ou.B)))
        IN /\ r.first.value = ou.x[1]
           /\ REq(r.first.mu, R(0))
           /\ REq(RDiv(R(1), r.first.tau), R(ou.A))
           /\ Len(r.sum) = N - 1
           /\ \A i \in 1..(N - 1) :
                 /\ r.sum[i].value = ou.x[i + 1]
                 /\ REq(r.sum[i].mu, RMul(ou.B, R(ou.x[i])))
                 /\ REq(RDiv(R(1), r.sum[i].tau), var)

C8_Witness == ou.done /\ Len(ou.x) = 3 /\ ou.x[1] # ou.x[2] /\ ou.x[2] # ou.x[3]

\* C9 (as claimed): on LangevinIG2 a call that supplies every input, the two
\* paths as arrays of one dimension, builds the graph, and a run then reaches
\* the sampler.
C9_IG2Builds ==
    ( /\ variant = "LangevinIG2" /\ IsCall
      /\ DOMAIN last.inputs = Params(variant)
      /\ \A n \in DOMAIN last.inputs \cap Observed : last.inputs[n].ndim >= 1 ) =>
        /\ cached_model # None
        /\ (IsRun => last.sampled)

\* C10 (as claimed): whenever a graph is cached, the containers in shared_vars
\* are exactly the ones it was built from; and a run that finds no graph
\* cached attempts the build.
C10_ContainersMatchGraph ==
    /\ cached_model # None => Containers = cached_model.built_from
    /\ (IsRun /\ last.pre_model = None) => last.built

====
